---- MODULE Spec2Model ----
\* Model of the layered "controller / use-case / repository / presenter"
\* pipeline of src/src/main.rs.
\*
\* A Rust String is a sequence of characters (one-character TLA+ strings).
\* Option<T> is a sequence of length 0 (None) or 1 (Some).
\* Result<T, u64> is a record [ok, val, code]: Ok(v) has val = <<v>>,
\* Err(c) has val = <<>> and code = c.
EXTENDS Integers, Sequences, FiniteSets, TLC

VARIABLES repoImpl, input, pipe, out, cur, exit

vars == <<repoImpl, input, pipe, out, cur, exit>>

\* ------------------------------------------------------------------ bounds
\* Error codes are u64; the model draws them from 0..MaxCode.
MaxCode == 1
\* Number of pipeline objects an arbitrary client owns (ClientSpec).
NumInstances == 2
\* Cap on how often one object may be used, so that a model in which a stage
\* does not consume its receiver stays finite.
MaxCalls == 2

\* ----------------------------------------------------------------- strings
SampleId   == <<"a", "b", "c", "1", "2", "3">>
SampleName == <<"t", "e", "s", "t", " ", "m", "a", "n">>
\* a", name: "a      (text that imitates the field separator of the Debug form)
Tricky     == <<"a", "\"", ",", " ", "n", "a", "m", "e", ":", " ", "\"", "a">>
Strs       == {SampleId, SampleName, <<"a">>, Tricky, <<"\\">>}

UserInputForm == [id : Strs, name : Strs]
SampleInput   == [id |-> SampleId, name |-> SampleName]
TrickyInput   == [id |-> Tricky, name |-> <<"a">>]
ClientInputs  == {SampleInput, TrickyInput}

Codes == 0..MaxCode

Ok(v)   == [ok |-> TRUE,  val |-> <<v>>, code |-> 0]
Err(c)  == [ok |-> FALSE, val |-> <<>>,  code |-> c]
\* Result<(), u64>
OkUnit  == [ok |-> TRUE,  val |-> <<>>,  code |-> 0]

\* ------------------------------------------------------- {:?} formatting
\* str's Debug: surrounding quotes, '"' and '\' escaped with a backslash.
RECURSIVE EscapeDebug(_)
EscapeDebug(s) ==
    IF s = <<>> THEN <<>>
    ELSE (IF Head(s) \in {"\"", "\\"} THEN <<"\\", Head(s)>> ELSE <<Head(s)>>)
         \o EscapeDebug(Tail(s))

DebugStr_noescape(s) == <<"\"">> \o s \o <<"\"">>
DebugStr(s) == <<"\"">> \o EscapeDebug(s) \o <<"\"">>

\* u64's Debug: decimal digits.
RECURSIVE DebugU64(_)
DebugU64(n) ==
    LET digit(d) == <<"0", "1", "2", "3", "4", "5", "6", "7", "8", "9">>[d + 1]
    IN IF n < 10 THEN <<digit(n)>> ELSE DebugU64(n \div 10) \o <<digit(n % 10)>>

\* derive(Debug) on a struct with the fields id and name:
\*   Name { id: "...", name: "..." }
DebugStruct(tyname, r) ==
    tyname \o <<" ", "{", " ", "i", "d", ":", " ">> \o DebugStr(r.id)
           \o <<",", " ", "n", "a", "m", "e", ":", " ">> \o DebugStr(r.name)
           \o <<" ", "}">>

DebugData(d)    == DebugStruct(<<"D", "a", "t", "a">>, d)
DebugDataDto(d) == DebugStruct(<<"D", "a", "t", "a", "D", "t", "o">>, d)
DebugPresentationalDataA(d) ==
    DebugStruct(<<"P", "r", "e", "s", "e", "n", "t", "a", "t", "i", "o", "n",
                  "a", "l", "D", "a", "t", "a", "A">>, d)

\* Result's Debug: Ok(<payload>) or Err(<code>).
DebugResult(r, payload) ==
    IF r.ok THEN <<"O", "k", "(">> \o payload \o <<")">>
    ELSE <<"E", "r", "r", "(">> \o DebugU64(r.code) \o <<")">>

\* ------------------------------------------------------------ conversions
\* kernel::Data::new
Data_new_swapped(id, name) == [id |-> name, name |-> id]
Data_new(id, name) == [id |-> id, name |-> name]

\* impl From<Data> for DataDto
DataDto_from_Data_swapped(value) == [id |-> value.name, name |-> value.id]
DataDto_from_Data(value) == [id |-> value.id, name |-> value.name]

\* impl InPort<UserInputForm> for TransformerA
TransformerA_emit(i) == [id |-> i.id, name |-> i.name]

\* impl From<UserInputForm> for DataDto
DataDto_from_UserInputForm_noname(value) == [id |-> value.id, name |-> <<>>]
DataDto_from_UserInputForm(value) == [id |-> value.id, name |-> value.name]

\* --------------------------------------------------------------- presenters
PresenterA_emit(r) ==
    IF r.ok THEN Ok([id |-> r.val[1].id, name |-> r.val[1].name])
    ELSE Err(r.code)

PresenterB_emit(r) ==
    IF r.ok THEN Ok(DebugDataDto(r.val[1]))
    ELSE Err(r.code)

OutPort_emit(p, r) == IF p = "PresenterA" THEN PresenterA_emit(r) ELSE PresenterB_emit(r)

\* println!("{:?}", res) in main
ResultLine(p, view) ==
    IF p = "PresenterA"
    THEN DebugResult(view, IF view.ok THEN DebugPresentationalDataA(view.val[1]) ELSE <<>>)
    ELSE DebugResult(view, IF view.ok THEN DebugStr(view.val[1]) ELSE <<>>)

\* --------------------------------------------------------------- repository
\* The repository is a capability (trait kernel::Repository) bound at the
\* composition root.  "DataRepository" is the stub of mod driver; the model
\* also covers "AnyRepository", an arbitrary implementation of the trait,
\* whose create may return any Result<(), u64>.
RepoImpls == {"DataRepository", "AnyRepository"}

Repository_create(impl) ==
    IF impl = "DataRepository" THEN {OkUnit}
    ELSE {OkUnit} \cup {Err(c) : c \in Codes}

\* println!("[driver] : {:?}", data) of the stub
DriverLines_silent(impl, data) == <<>>
DriverLines(impl, data) ==
    IF impl = "DataRepository"
    THEN << <<"[", "d", "r", "i", "v", "e", "r", "]", " ", ":", " ">> \o DebugData(data) >>
    ELSE <<>>

\* self.repository().create(&data).await?;  Ok(data.into())
Create_result_ignoring_error(r, data) == Ok(DataDto_from_Data(data))
Create_result(r, data) ==
    IF r.ok THEN Ok(DataDto_from_Data(data)) ELSE Err(r.code)

\* ------------------------------------------------------- pipeline objects
\* A stage that takes `self` by value moves its receiver.
Consume_borrow(o) == o
Consume(o) == "moved"

\* One slot per pipeline object chain (controller -> Transformed/Captured).
\*   controller, staged : "none" | "live" | "moved"    ownership of the object
\*   pos                : position of the future returned by handle
\*   inputs             : the inputs given to transform / capture so far
\*   n*                 : how often each operation has run for this chain
NoPipe ==
    [variant |-> "none", presenter |-> "none",
     controller |-> "none", staged |-> "none",
     trans_input |-> <<>>, cap_input |-> <<>>, inputs |-> <<>>,
     pos |-> "idle", dtoArg |-> <<>>, data |-> <<>>, repoArg |-> <<>>,
     repoRes |-> <<>>, ucRes |-> <<>>, presenterIn |-> <<>>, view |-> <<>>,
     nConv |-> 0, nHandle |-> 0, nHandler |-> 0, nEntity |-> 0, nRepo |-> 0,
     nToDto |-> 0, nPresent |-> 0]

Insts == DOMAIN pipe

Variants   == {"_Controller", "Controller"}
Presenters == {"PresenterA", "PresenterB"}

\* _Controller::new(transformer, presenter) / Controller::new(presenter)
New(k, v, p) ==
    /\ pipe[k].controller = "none"
    /\ pipe' = [pipe EXCEPT ![k] = [@ EXCEPT !.variant = v, !.presenter = p,
                                              !.controller = "live"]]

\* _Controller::transform(self, input)
Transform(k, i) ==
    /\ pipe[k].variant = "_Controller"
    /\ pipe[k].controller = "live"
    /\ Len(pipe[k].inputs) < MaxCalls
    /\ pipe' = [pipe EXCEPT ![k] =
                 [@ EXCEPT !.trans_input = <<TransformerA_emit(i)>>,
                           !.nConv = @ + 1,
                           !.inputs = Append(@, i),
                           !.controller = Consume(@),
                           !.staged = "live"]]

\* Controller::capture(self, input)
Capture(k, i) ==
    /\ pipe[k].variant = "Controller"
    /\ pipe[k].controller = "live"
    /\ Len(pipe[k].inputs) < MaxCalls
    /\ pipe' = [pipe EXCEPT ![k] =
                 [@ EXCEPT !.cap_input = <<i>>,
                           !.inputs = Append(@, i),
                           !.controller = Consume(@),
                           !.staged = "live"]]

\* Transformed::handle(self, f) / Captured::handle(self, f) up to the call of
\* f: the deferred conversion (Captured only), then f(dto).
Handle(k) ==
    /\ pipe[k].staged = "live"
    /\ pipe[k].nHandle < MaxCalls
    /\ LET deferred == pipe[k].variant = "Controller"
           dto == IF deferred THEN DataDto_from_UserInputForm(pipe[k].cap_input[1])
                  ELSE pipe[k].trans_input[1]
       IN pipe' = [pipe EXCEPT ![k] =
                    [@ EXCEPT !.staged = Consume(@),
                              !.nHandle = @ + 1,
                              !.nConv = @ + (IF deferred THEN 1 ELSE 0),
                              !.dtoArg = <<dto>>,
                              !.nHandler = @ + 1,
                              !.pos = "called"]]

\* CreateDataService::create: let DataDto { id, name } = obj; Data::new(id, name)
CreateBegin(k) ==
    /\ pipe[k].pos = "called"
    /\ LET obj == pipe[k].dtoArg[1]
       IN pipe' = [pipe EXCEPT ![k] =
                    [@ EXCEPT !.data = <<Data_new(obj.id, obj.name)>>,
                              !.nEntity = @ + 1,
                              !.pos = "entity"]]

\* self.repository().create(&data).await
RepositoryCreate(k, r) ==
    /\ pipe[k].pos = "entity"
    /\ r \in Repository_create(repoImpl)
    /\ pipe' = [pipe EXCEPT ![k] =
                 [@ EXCEPT !.repoArg = pipe[k].data,
                           !.repoRes = <<r>>,
                           !.nRepo = @ + 1,
                           !.pos = "repo"]]
    /\ out' = out \o DriverLines(repoImpl, pipe[k].data[1])

\* the `?` on the repository's result, then Ok(data.into())
CreateEnd(k) ==
    /\ pipe[k].pos = "repo"
    /\ LET res == Create_result(pipe[k].repoRes[1], pipe[k].data[1])
       IN pipe' = [pipe EXCEPT ![k] =
                    [@ EXCEPT !.ucRes = <<res>>,
                              !.nToDto = @ + (IF res.ok THEN 1 ELSE 0),
                              !.pos = "returned"]]

\* presenter.emit(<awaited result of f>), the value handle returns
Present_early(k) ==
    /\ pipe[k].pos \in {"called", "returned"}
    /\ LET res == IF pipe[k].ucRes = <<>> THEN Ok(pipe[k].dtoArg[1]) ELSE pipe[k].ucRes[1]
       IN pipe' = [pipe EXCEPT ![k] =
                    [@ EXCEPT !.presenterIn = <<res>>,
                              !.view = <<OutPort_emit(pipe[k].presenter, res)>>,
                              !.nPresent = @ + 1,
                              !.pos = "presented"]]
Present(k) ==
    /\ pipe[k].pos = "returned"
    /\ pipe' = [pipe EXCEPT ![k] =
                 [@ EXCEPT !.presenterIn = pipe[k].ucRes,
                           !.view = <<OutPort_emit(pipe[k].presenter, pipe[k].ucRes[1])>>,
                           !.nPresent = @ + 1,
                           !.pos = "presented"]]

\* ---------------------------------------------------------------- main
\* The four chains main builds, in program order.
MainRuns ==
    << [variant |-> "_Controller", presenter |-> "PresenterA"],
       [variant |-> "_Controller", presenter |-> "PresenterB"],
       [variant |-> "Controller",  presenter |-> "PresenterA"],
       [variant |-> "Controller",  presenter |-> "PresenterB"] >>
NumRuns == Len(MainRuns)

\* after println!("{:?}", res) main goes on to the next statement
NextRun_abort_on_err(k, view) == IF view.ok THEN k + 1 ELSE NumRuns + 1
NextRun(k, view) == k + 1

\* main's final expression: Ok(())
ExitStatus_failing(views) ==
    IF \E j \in DOMAIN views : views[j] # <<>> /\ ~views[j][1].ok THEN "failure" ELSE "success"
ExitStatus(views) == "success"

Init ==
    /\ repoImpl \in RepoImpls
    /\ input \in UserInputForm
    /\ pipe = [k \in 1..NumRuns |-> NoPipe]
    /\ out = <<>>
    /\ cur = 1
    /\ exit = "running"

MainNew ==
    /\ cur \in Insts
    /\ New(cur, MainRuns[cur].variant, MainRuns[cur].presenter)
    /\ UNCHANGED <<repoImpl, input, out, cur, exit>>

MainTransform ==
    /\ cur \in Insts
    /\ Transform(cur, input)
    /\ UNCHANGED <<repoImpl, input, out, cur, exit>>

MainCapture ==
    /\ cur \in Insts
    /\ Capture(cur, input)
    /\ UNCHANGED <<repoImpl, input, out, cur, exit>>

MainHandle ==
    /\ cur \in Insts
    /\ Handle(cur)
    /\ UNCHANGED <<repoImpl, input, out, cur, exit>>

MainCreateBegin ==
    /\ cur \in Insts
    /\ CreateBegin(cur)
    /\ UNCHANGED <<repoImpl, input, out, cur, exit>>

MainRepositoryCreate ==
    /\ cur \in Insts
    /\ \E r \in Repository_create(repoImpl) : RepositoryCreate(cur, r)
    /\ UNCHANGED <<repoImpl, input, cur, exit>>

MainCreateEnd ==
    /\ cur \in Insts
    /\ CreateEnd(cur)
    /\ UNCHANGED <<repoImpl, input, out, cur, exit>>

MainPresent ==
    /\ cur \in Insts
    /\ Present(cur)
    /\ UNCHANGED <<repoImpl, input, out, cur, exit>>

\* println!("{:?}", res)
MainPrintln ==
    /\ cur \in Insts
    /\ pipe[cur].pos = "presented"
    /\ out' = Append(out, ResultLine(pipe[cur].presenter, pipe[cur].view[1]))
    /\ cur' = NextRun(cur, pipe[cur].view[1])
    /\ UNCHANGED <<repoImpl, input, pipe, exit>>

\* Ok(())
MainExit ==
    /\ cur = NumRuns + 1
    /\ exit = "running"
    /\ exit' = ExitStatus([k \in Insts |-> pipe[k].view])
    /\ UNCHANGED <<repoImpl, input, pipe, out, cur>>

Next ==
    \/ MainNew
    \/ MainTransform
    \/ MainCapture
    \/ MainHandle
    \/ MainCreateBegin
    \/ MainRepositoryCreate
    \/ MainCreateEnd
    \/ MainPresent
    \/ MainPrintln
    \/ MainExit

Spec == Init /\ [][Next]_vars

\* ------------------------------------------------------- arbitrary client
\* Any well-typed client of mod adaptor: it owns NumInstances chains and may
\* call any stage on any of them, in any order the borrow checker accepts.
ClientInit ==
    /\ repoImpl \in RepoImpls
    /\ input = SampleInput
    /\ pipe = [k \in 1..NumInstances |-> NoPipe]
    /\ out = <<>>
    /\ cur = 0
    /\ exit = "running"

ClientNew ==
    /\ \E k \in Insts, v \in Variants, p \in Presenters : New(k, v, p)
    /\ UNCHANGED <<repoImpl, input, out, cur, exit>>

ClientTransform ==
    /\ \E k \in Insts, i \in ClientInputs : Transform(k, i)
    /\ UNCHANGED <<repoImpl, input, out, cur, exit>>

ClientCapture ==
    /\ \E k \in Insts, i \in ClientInputs : Capture(k, i)
    /\ UNCHANGED <<repoImpl, input, out, cur, exit>>

ClientHandle ==
    /\ \E k \in Insts : Handle(k)
    /\ UNCHANGED <<repoImpl, input, out, cur, exit>>

ClientCreateBegin ==
    /\ \E k \in Insts : CreateBegin(k)
    /\ UNCHANGED <<repoImpl, input, out, cur, exit>>

ClientRepositoryCreate ==
    /\ \E k \in Insts, r \in Repository_create(repoImpl) : RepositoryCreate(k, r)
    /\ UNCHANGED <<repoImpl, input, cur, exit>>

ClientCreateEnd ==
    /\ \E k \in Insts : CreateEnd(k)
    /\ UNCHANGED <<repoImpl, input, out, cur, exit>>

ClientPresent ==
    /\ \E k \in Insts : Present(k)
    /\ UNCHANGED <<repoImpl, input, out, cur, exit>>

ClientNext ==
    \/ ClientNew
    \/ ClientTransform
    \/ ClientCapture
    \/ ClientHandle
    \/ ClientCreateBegin
    \/ ClientRepositoryCreate
    \/ ClientCreateEnd
    \/ ClientPresent

ClientSpec == ClientInit /\ [][ClientNext]_vars

\* ================================================================ claims
Presented(k) == pipe[k].view # <<>>
RepoOk(k)    == pipe[k].repoRes # <<>> /\ pipe[k].repoRes[1].ok
RepoErr(k)   == pipe[k].repoRes # <<>> /\ ~pipe[k].repoRes[1].ok
InputPair    == [id |-> input.id, name |-> input.name]

\* DataDto { id: "abc123", name: "test man" }
SampleDtoText ==
    <<"D", "a", "t", "a", "D", "t", "o", " ", "{", " ", "i", "d", ":", " ",
      "\"", "a", "b", "c", "1", "2", "3", "\"", ",", " ",
      "n", "a", "m", "e", ":", " ",
      "\"", "t", "e", "s", "t", " ", "m", "a", "n", "\"", " ", "}">>

\* C1: when the repository succeeds, the view-model of a create pipeline run
\* carries exactly the input's id and name: presenter A returns Ok of the
\* record {id, name}, presenter B returns Ok of the Debug text of a DTO with
\* that id and name; for id "abc123", name "test man" presenter A returns
\* Ok({id: "abc123", name: "test man"}).
C1_RoundTrip ==
    \A k \in Insts :
        (Presented(k) /\ RepoOk(k)) =>
            /\ pipe[k].presenter = "PresenterA" => pipe[k].view[1] = Ok(InputPair)
            /\ pipe[k].presenter = "PresenterB" => pipe[k].view[1] = Ok(DebugDataDto(InputPair))
            /\ (input = SampleInput /\ pipe[k].presenter = "PresenterA") =>
                   pipe[k].view[1] = Ok([id |-> SampleId, name |-> SampleName])
            /\ (input = SampleInput /\ pipe[k].presenter = "PresenterB") =>
                   pipe[k].view[1] = Ok(SampleDtoText)

C1_Witness ==
    /\ input = SampleInput
    /\ \A k \in Insts : Presented(k) /\ RepoOk(k) /\ pipe[k].view[1].ok

\* C2: when the repository's create returns the error code c, the use-case
\* returns Err(c), the view-model is Err(c) for either presenter and either
\* controller variant, and no entity is constructed or converted to a DTO
\* after the error.
C2_ErrorPropagation ==
    \A k \in Insts :
        RepoErr(k) =>
            /\ pipe[k].nEntity = 1
            /\ pipe[k].data = pipe[k].repoArg
            /\ pipe[k].nToDto = 0
            /\ pipe[k].ucRes # <<>> => pipe[k].ucRes[1] = Err(pipe[k].repoRes[1].code)
            /\ Presented(k) => pipe[k].view[1] = Err(pipe[k].repoRes[1].code)

C2_Witness ==
    /\ \A k \in Insts : RepoErr(k) /\ Presented(k) /\ ~pipe[k].view[1].ok
    /\ pipe[1].view[1].code = MaxCode
    /\ pipe[4].view[1].code = 0

\* C3: for the same input, the same presenter and the same repository
\* outcome, the chain with the explicit transform stage and the chain with
\* the deferred conversion return the same view-model.
C3_TransformerTransparent ==
    \A a, b \in Insts :
        ( /\ pipe[a].variant = "_Controller" /\ pipe[b].variant = "Controller"
          /\ pipe[a].presenter = pipe[b].presenter
          /\ pipe[a].inputs = pipe[b].inputs
          /\ Presented(a) /\ Presented(b)
          /\ pipe[a].repoRes = pipe[b].repoRes )
        => pipe[a].view = pipe[b].view

C3_Witness ==
    /\ Presented(1) /\ Presented(3) /\ RepoOk(1) /\ RepoOk(3)
    /\ Presented(2) /\ Presented(4) /\ RepoErr(2) /\ pipe[2].repoRes = pipe[4].repoRes
    /\ input.name # <<>>

\* C4: for the same input and the same use-case outcome presenter A and
\* presenter B return the same variant, the same error code in the Err case,
\* and in the Ok case the same id and name (B's text is the Debug text of
\* exactly the DTO whose fields A's record carries); everything upstream of
\* the presenter (handler argument, entity given to the repository, number
\* of repository calls) is the same.
C4_PresenterTransparent ==
    \A a, b \in Insts :
        ( /\ pipe[a].presenter = "PresenterA" /\ pipe[b].presenter = "PresenterB"
          /\ pipe[a].variant = pipe[b].variant
          /\ pipe[a].inputs = pipe[b].inputs
          /\ Presented(a) /\ Presented(b)
          /\ pipe[a].ucRes = pipe[b].ucRes )
        => /\ pipe[a].view[1].ok = pipe[b].view[1].ok
           /\ ~pipe[a].view[1].ok => pipe[a].view[1].code = pipe[b].view[1].code
           /\ pipe[a].view[1].ok =>
                 /\ pipe[b].view[1].val[1] = DebugDataDto(pipe[a].view[1].val[1])
                 /\ \A d \in UserInputForm :
                        DebugDataDto(d) = pipe[b].view[1].val[1] => d = pipe[a].view[1].val[1]
           /\ pipe[a].dtoArg = pipe[b].dtoArg
           /\ pipe[a].repoArg = pipe[b].repoArg
           /\ pipe[a].nRepo = pipe[b].nRepo

C4_Witness ==
    /\ Presented(1) /\ Presented(2) /\ pipe[1].ucRes = pipe[2].ucRes /\ pipe[1].view[1].ok
    /\ Presented(3) /\ Presented(4) /\ pipe[3].ucRes = pipe[4].ucRes /\ ~pipe[3].view[1].ok
    /\ input = TrickyInput

\* [driver] : Data { id: "...", name: "..." }   for the entity of the input
C5_DriverLine ==
    <<"[", "d", "r", "i", "v", "e", "r", "]", " ", ":", " ">> \o DebugData(InputPair)

C5_Stub == repoImpl = "DataRepository"

\* C5: main performs exactly four pipeline runs one after the other, a run
\* starting only after the previous one has completed and its result has
\* been printed; with the stub repository the output is, per run, the
\* repository's diagnostic line followed by the run's result line, eight
\* lines when main has finished.
C5_SequentialTrace ==
    /\ NumRuns = 4
    /\ cur \in 1..(NumRuns + 1)
    /\ \A k \in Insts :
          /\ k < cur => Presented(k) /\ pipe[k].nHandle = 1
          /\ k > cur => pipe[k] = NoPipe
    /\ exit # "running" => cur = NumRuns + 1
    /\ C5_Stub =>
          /\ Len(out) = 2 * (cur - 1)
                        + (IF cur \in Insts /\ pipe[cur].nRepo = 1 THEN 1 ELSE 0)
          /\ \A j \in 1..Len(out) :
                IF j % 2 = 1 THEN out[j] = C5_DriverLine
                ELSE out[j] = ResultLine(pipe[j \div 2].presenter, pipe[j \div 2].view[1])
          /\ exit # "running" => Len(out) = 8
    /\ ~C5_Stub =>
          /\ Len(out) = cur - 1
          /\ \A j \in 1..Len(out) :
                out[j] = ResultLine(pipe[j].presenter, pipe[j].view[1])

C5_Witness ==
    /\ C5_Stub
    /\ exit # "running"
    /\ Len(out) = 8
    /\ input = SampleInput

\* C6 (as claimed): main ends with a success status exactly when no
\* repository call returned an error code.
C6_ExitReflectsFailure ==
    exit # "running" => (exit = "success" <=> \A k \in Insts : ~RepoErr(k))

\* C6 (amended): main ends with a success status in every case, also when a
\* repository call returned an error code; with the stub repository no
\* repository call returns an error code.
C6_ExitAlwaysSuccess ==
    /\ exit # "running" => exit = "success"
    /\ C5_Stub => \A k \in Insts : ~RepoErr(k)

C6_Witness ==
    /\ exit = "success"
    /\ \E k \in Insts : RepoErr(k)

\* C7: an error of the repository call of one run ends only that run: main
\* never stops before its last statement, every run executes and calls the
\* repository once, and the view-model of a run is determined by the input
\* and that run's own repository outcome.
C7_FailureIsLocal ==
    /\ exit = "running" => ENABLED Next
    /\ exit # "running" => \A k \in Insts : Presented(k) /\ pipe[k].nRepo = 1
    /\ \A k \in Insts :
          Presented(k) =>
              pipe[k].view[1] =
                  OutPort_emit(MainRuns[k].presenter,
                               IF pipe[k].repoRes[1].ok
                               THEN Ok(InputPair)
                               ELSE Err(pipe[k].repoRes[1].code))

C7_Witness ==
    /\ exit # "running"
    /\ RepoErr(1) /\ RepoOk(2) /\ RepoErr(3) /\ RepoOk(4)
    /\ pipe[2].view[1].ok /\ pipe[4].view[1].ok

\* C8: every stage consumes the object it is called on: a chain accepts
\* one input (one transform or capture) and performs at most one handle;
\* once an object has been used it is moved and no operation on it remains
\* possible.
C8_SingleUse ==
    \A k \in Insts :
        /\ Len(pipe[k].inputs) <= 1
        /\ pipe[k].nHandle <= 1
        /\ Len(pipe[k].inputs) = 1 => pipe[k].controller = "moved"
        /\ pipe[k].nHandle = 1 =>
              /\ pipe[k].staged = "moved"
              /\ Len(pipe[k].inputs) = 1
              /\ ~ENABLED Handle(k)
        /\ pipe[k].controller = "moved" =>
              \A i \in ClientInputs : ~ENABLED Transform(k, i) /\ ~ENABLED Capture(k, i)

C8_Witness ==
    /\ \A k \in Insts : pipe[k].nHandle = 1 /\ Presented(k)
    /\ pipe[1].variant = "_Controller"
    /\ pipe[2].variant = "Controller"

\* C9: a call of the use-case create calls the repository's create exactly
\* once, whether it succeeds or fails; the entity given to the repository
\* has the id and name of the DTO given to the use-case; the entity is
\* built before the repository call and converted back to a DTO only after
\* the repository returned success.
C9_OneRepositoryCall ==
    \A k \in Insts :
        /\ pipe[k].nRepo <= 1
        /\ pipe[k].nEntity <= 1
        /\ pipe[k].nToDto <= 1
        /\ pipe[k].pos \in {"repo", "returned", "presented"} => pipe[k].nRepo = 1
        /\ pipe[k].nRepo = 1 =>
              /\ pipe[k].nEntity = 1
              /\ pipe[k].repoArg # <<>>
              /\ pipe[k].repoArg[1].id = pipe[k].dtoArg[1].id
              /\ pipe[k].repoArg[1].name = pipe[k].dtoArg[1].name
        /\ pipe[k].nToDto = 1 => RepoOk(k)
        /\ pipe[k].ucRes # <<>> => (pipe[k].ucRes[1].ok <=> pipe[k].nToDto = 1)

C9_Witness ==
    /\ pipe[1].ucRes # <<>> /\ RepoErr(1) /\ pipe[1].nRepo = 1
    /\ pipe[2].ucRes # <<>> /\ RepoOk(2) /\ pipe[2].nRepo = 1 /\ pipe[2].nToDto = 1
    /\ input.id # input.name

\* C10: a handle call invokes the handler exactly once, with the DTO
\* converted from the input, and invokes the presenter exactly once, after
\* the handler's result is available and with exactly that result; the
\* view-model is the presenter's output.  With the explicit transform stage
\* the conversion has happened when transform returns; with capture no
\* conversion happens before handle, and it has happened when the handler
\* is invoked.
C10_HandleProtocol ==
    \A k \in Insts :
        /\ pipe[k].nHandler <= 1
        /\ pipe[k].nPresent <= 1
        /\ pipe[k].nHandle = 1 => pipe[k].nHandler = 1
        /\ pipe[k].nHandler = 1 =>
              /\ pipe[k].nConv = 1
              /\ pipe[k].dtoArg = << [id |-> pipe[k].inputs[1].id,
                                      name |-> pipe[k].inputs[1].name] >>
        /\ pipe[k].nPresent = 1 =>
              /\ pipe[k].nHandler = 1
              /\ pipe[k].ucRes # <<>>
              /\ pipe[k].presenterIn = pipe[k].ucRes
              /\ pipe[k].view = <<OutPort_emit(pipe[k].presenter, pipe[k].ucRes[1])>>
        /\ Presented(k) => pipe[k].nPresent = 1
        /\ (pipe[k].variant = "_Controller" /\ pipe[k].staged = "live") => pipe[k].nConv = 1
        /\ (pipe[k].variant = "Controller" /\ pipe[k].staged = "live") => pipe[k].nConv = 0

C10_Witness ==
    /\ Presented(1) /\ pipe[1].nHandler = 1 /\ pipe[1].nPresent = 1
    /\ Presented(2) /\ Presented(3)
    /\ pipe[4].variant = "Controller" /\ pipe[4].staged = "live" /\ pipe[4].nConv = 0
====
